---- MODULE Spec2Model ----
(***************************************************************************)
(* Model of the rag-it ingestion and retrieval pipeline:                   *)
(*   src/src/ingest.py       chunk_text, ingest_document,                  *)
(*                           ingest_all_documents                          *)
(*   src/src/vectorstore.py  VectorStore (a ChromaDB collection)           *)
(*   src/src/query.py        QueryEngine.retrieve_context, build_prompt,   *)
(*                           query                                         *)
(*   src/src/embeddings.py   Embedder                                      *)
(*                                                                         *)
(* A text is a sequence of one-character strings; paths, file names and    *)
(* chunk ids are strings built by concatenation, as the code builds them.  *)
(***************************************************************************)
EXTENDS Integers, Sequences, FiniteSets, TLC

(***************************************************************************)
(* Bounds of the model.                                                    *)
(***************************************************************************)
\* chunk_text's chunk_size / chunk_overlap.  config/settings.py sets 500 and
\* 50; the model scales them down so that texts of a few characters split
\* into several chunks.
CHUNK_SIZE == 4
CHUNK_OVERLAP == 1
\* largest top_k a query is made with
MaxTopK == 2
\* longest batch handed to add_documents directly
MaxBatch == 2
\* longest text and largest chunk_size that chunk_text is called with on its own
MaxTextLen == 4
MaxSize == 3
\* most crashes of one ingest_document call and its re-runs
MaxCrashes == 1

(***************************************************************************)
(* Text helpers (Python str operations).                                   *)
(***************************************************************************)
NL == "\n"

\* str.isspace for the characters of the model's alphabet
IsSpace(c) == c \in {" ", NL}

RECURSIVE LStrip(_)
LStrip(s) == IF s # <<>> /\ IsSpace(Head(s)) THEN LStrip(Tail(s)) ELSE s

RECURSIVE RStrip(_)
RStrip(s) ==
    IF s # <<>> /\ IsSpace(s[Len(s)]) THEN RStrip(SubSeq(s, 1, Len(s) - 1)) ELSE s

\* str.strip()
Strip(s) == RStrip(LStrip(s))

\* "".join / separator.join over a list of strings
RECURSIVE Join(_, _)
Join(parts, sep) ==
    IF parts = <<>> THEN <<>>
    ELSE IF Len(parts) = 1 THEN parts[1]
    ELSE parts[1] \o sep \o Join(Tail(parts), sep)

\* text[i:i+len(sep)] == sep
MatchesAt(text, sep, i) ==
    /\ i + Len(sep) - 1 <= Len(text)
    /\ SubSeq(text, i, i + Len(sep) - 1) = sep

\* re.search(re.escape(sep), text) for a non-empty literal sep
Contains(text, sep) == \E i \in 1..Len(text) : MatchesAt(text, sep, i)

(***************************************************************************)
(* RecursiveCharacterTextSplitter, as chunk_text configures it:            *)
(* separators ["\n\n", "\n", ". ", " ", ""], length_function=len, and the  *)
(* library defaults keep_separator=True, strip_whitespace=True.            *)
(***************************************************************************)
Separators == << <<NL, NL>>, <<NL>>, <<".", " ">>, <<" ">>, <<>> >>

\* re.split(f"({sep})", text) with the separator glued to the start of the
\* piece that follows it; cur is the piece being collected from position i.
RECURSIVE SplitKeep(_, _, _, _)
SplitKeep(text, sep, i, cur) ==
    IF i > Len(text) THEN <<cur>>
    ELSE IF MatchesAt(text, sep, i)
         THEN <<cur>> \o SplitKeep(text, sep, i + Len(sep), sep)
         ELSE SplitKeep(text, sep, i + 1, Append(cur, text[i]))

\* [s for s in splits if s != ""]
NonEmpty(splits) == SelectSeq(splits, LAMBDA s : s # <<>>)

\* _split_text_with_regex(text, separator, keep_separator=True)
split_text_with_regex(text, separator) ==
    IF separator # <<>>
    THEN NonEmpty(SplitKeep(text, separator, 1, <<>>))
    ELSE NonEmpty([i \in 1..Len(text) |-> <<text[i]>>])

\* _join_docs gone wrong: the joined text is not stripped
join_docs_unstripped(docs, separator) == Join(docs, separator)

\* _join_docs: the joined, stripped text; the empty text stands for None
join_docs(docs, separator) == Strip(Join(docs, separator))

\* the "while total > chunk_overlap or (...)" loop of _merge_splits
RECURSIVE PopDoc(_, _, _, _, _, _)
PopDoc(cur, total, len, seplen, size, overlap) ==
    IF \/ total > overlap
       \/ /\ total + len + (IF Len(cur) > 0 THEN seplen ELSE 0) > size
          /\ total > 0
    THEN PopDoc(Tail(cur),
                total - (Len(cur[1]) + (IF Len(cur) > 1 THEN seplen ELSE 0)),
                len, seplen, size, overlap)
    ELSE [cur |-> cur, total |-> total]

\* docs.append(doc) unless _join_docs gave None
AppendDoc(docs, doc) == IF doc # <<>> THEN Append(docs, doc) ELSE docs

\* _merge_splits, inside "if total + _len + ... > chunk_size": the current
\* doc is emitted and its head popped, when there is a current doc
MergeFlush(st, len, separator, size, overlap) ==
    IF /\ st.total + len + (IF Len(st.cur) > 0 THEN Len(separator) ELSE 0) > size
       /\ Len(st.cur) > 0
    THEN [docs |-> AppendDoc(st.docs, join_docs(st.cur, separator))]
         @@ PopDoc(st.cur, st.total, len, Len(separator), size, overlap)
    ELSE st

\* _merge_splits: current_doc.append(d); total += _len + separator_len
MergeAppend(st, d, seplen) ==
    [docs |-> st.docs, cur |-> Append(st.cur, d),
     total |-> st.total + Len(d) + (IF Len(st.cur) + 1 > 1 THEN seplen ELSE 0)]

\* one iteration of "for d in splits" in _merge_splits
MergeStep(st, d, separator, size, overlap) ==
    MergeAppend(MergeFlush(st, Len(d), separator, size, overlap), d, Len(separator))

RECURSIVE MergeLoop(_, _, _, _, _)
MergeLoop(st, splits, separator, size, overlap) ==
    IF splits = <<>> THEN st
    ELSE MergeLoop(MergeStep(st, Head(splits), separator, size, overlap),
                   Tail(splits), separator, size, overlap)

\* the end of _merge_splits: the last current doc is emitted
MergeEnd(st, separator) == AppendDoc(st.docs, join_docs(st.cur, separator))

\* _merge_splits gone wrong: all splits are joined into one doc
merge_splits_unbounded(splits, separator, size, overlap) ==
    AppendDoc(<<>>, join_docs(splits, separator))

\* _merge_splits(splits, separator)
merge_splits(splits, separator, size, overlap) ==
    MergeEnd(MergeLoop([docs |-> <<>>, cur |-> <<>>, total |-> 0],
                       splits, separator, size, overlap),
             separator)

\* index of the first separator that is "" or occurs in the text
RECURSIVE PickSeparator(_, _, _)
PickSeparator(text, separators, i) ==
    IF i > Len(separators) THEN Len(separators)
    ELSE IF separators[i] = <<>> \/ Contains(text, separators[i]) THEN i
    ELSE PickSeparator(text, separators, i + 1)

\* new_separators = separators[i + 1:], or [] when the separator is ""
NewSeparators(separators, i) ==
    IF separators[i] = <<>> THEN <<>>
    ELSE SubSeq(separators, i + 1, Len(separators))

RECURSIVE split_text(_, _, _, _)

\* _split_text: "if _good_splits: final_chunks.extend(_merge_splits(...))";
\* keep_separator makes the merge separator ""
FlushGood(good, final, size, overlap) ==
    IF good # <<>> THEN final \o merge_splits(good, <<>>, size, overlap) ELSE final

\* _split_text: a split that is not shorter than chunk_size is appended as
\* it is when no separator is left, and split again otherwise
SplitFurther(s, new_separators, size, overlap) ==
    IF new_separators = <<>> THEN <<s>>
    ELSE split_text(s, new_separators, size, overlap)

\* _good_splits after one iteration of "for s in splits"
NextGood(s, good, size) == IF Len(s) < size THEN Append(good, s) ELSE <<>>

\* final_chunks after one iteration of "for s in splits"
NextFinal(s, good, final, new_separators, size, overlap) ==
    IF Len(s) < size THEN final
    ELSE FlushGood(good, final, size, overlap)
         \o SplitFurther(s, new_separators, size, overlap)

\* "for s in splits" of _split_text and the flush that follows it
RECURSIVE SplitLoop(_, _, _, _, _, _)
SplitLoop(splits, good, final, new_separators, size, overlap) ==
    IF splits = <<>> THEN FlushGood(good, final, size, overlap)
    ELSE SplitLoop(Tail(splits),
                   NextGood(Head(splits), good, size),
                   NextFinal(Head(splits), good, final, new_separators, size, overlap),
                   new_separators, size, overlap)

\* _split_text once its separator, separators[i], is chosen
SplitWith(text, separators, i, size, overlap) ==
    SplitLoop(split_text_with_regex(text, separators[i]), <<>>, <<>>,
              NewSeparators(separators, i), size, overlap)

\* RecursiveCharacterTextSplitter._split_text(text, separators)
split_text(text, separators, size, overlap) ==
    SplitWith(text, separators, PickSeparator(text, separators, 1), size, overlap)

\* chunk_text(text, chunk_size, chunk_overlap)
chunk_text(text, chunk_size, chunk_overlap) ==
    split_text(text, Separators, chunk_size, chunk_overlap)

(***************************************************************************)
(* Paths (pathlib.Path): str(path), path.name and path.stem.               *)
(***************************************************************************)
ResumePdf == [parent |-> "docs", stem |-> "resume", suffix |-> ".pdf"]
ResumeTxt == [parent |-> "docs", stem |-> "resume", suffix |-> ".txt"]
NotesMd == [parent |-> "docs", stem |-> "notes", suffix |-> ".md"]

\* the files that may be found under DOCUMENTS_DIR
Paths == {ResumePdf, ResumeTxt, NotesMd}

\* file_path.name
PathName(p) == p.stem \o p.suffix

\* str(file_path)
PathStr(p) == p.parent \o "/" \o PathName(p)

(***************************************************************************)
(* What parse_document gives for a file: a text, or an exception.          *)
(***************************************************************************)
TextAb == <<"a", "b">>
TextCdEf == <<"c", "d", " ", "e", "f">>
TextAbCdEf == <<"a", "b", " ", "c", "d", " ", "e", "f">>
TextBlank == <<" ", NL>>
TextEmpty == <<>>

DocTexts == {TextEmpty, TextBlank, TextAb, TextCdEf, TextAbCdEf}

ParseFailed == [ok |-> FALSE, text |-> <<>>]
ParseOutcomes == {[ok |-> TRUE, text |-> t] : t \in DocTexts} \cup {ParseFailed}

\* parse raised, or the text is empty or whitespace
Skipped(parse) == ~parse.ok \/ Strip(parse.text) = <<>>

\* chunk_text(text) with the default chunk_size and chunk_overlap, worked out
\* once for each text a document may hold
DefaultChunks == [t \in DocTexts |-> chunk_text(t, CHUNK_SIZE, CHUNK_OVERLAP)]

(***************************************************************************)
(* Embedder: a fixed function from a text to a vector of one dimension.    *)
(* The stand-in for the sentence-transformers model counts characters.     *)
(***************************************************************************)
RECURSIVE CountIn(_, _)
CountIn(text, chars) ==
    IF text = <<>> THEN 0
    ELSE (IF Head(text) \in chars THEN 1 ELSE 0) + CountIn(Tail(text), chars)

\* Embedder.embed_text
embed_text(text) == <<CountIn(text, {"a", "b"}), CountIn(text, {"c", "d"})>>

\* Embedder.embed_texts
embed_texts(texts) == [i \in 1..Len(texts) |-> embed_text(texts[i])]

\* the vector lengths of the models EMBEDDING_MODEL may name: that of the
\* stand-in above, and a longer one
Dimensions == {Len(embed_text(<<>>)), Len(embed_text(<<>>)) + 1}

\* Embedder(model_name).embed_text for a model of vector length d
embed_text_as(d, text) ==
    IF d = Len(embed_text(text)) THEN embed_text(text)
    ELSE embed_text(text) \o <<CountIn(text, {"e", "f"})>>

\* Embedder(model_name).embed_texts for a model of vector length d
embed_texts_as(d, texts) == [i \in 1..Len(texts) |-> embed_text_as(d, texts[i])]

(***************************************************************************)
(* The ChromaDB collection: a function from ids to entries.                *)
(***************************************************************************)
EmptyCollection == <<>>

\* collection.count()
Count(coll) == Cardinality(DOMAIN coll)

\* collection.get(where={"source": source}, include=[])["ids"]
IdsOfSource(coll, source) ==
    {id \in DOMAIN coll :
        /\ "source" \in DOMAIN coll[id].metadata
        /\ coll[id].metadata.source = source}

\* collection.delete(ids=ids)
CollectionDelete(coll, ids) == [id \in (DOMAIN coll) \ ids |-> coll[id]]

HasDuplicates(seq) == \E i, j \in 1..Len(seq) : i # j /\ seq[i] = seq[j]

\* collection.add gone wrong: a record whose id is already in the collection
\* takes the place of the one stored (collection.upsert)
CollectionUpsert(coll, documents, embeddings, metadatas, ids) ==
    IF HasDuplicates(ids)
    THEN [collection |-> coll, raised |-> "DuplicateIDError"]
    ELSE LET idx(id) == CHOOSE i \in 1..Len(ids) : ids[i] = id
         IN  [collection |->
                 [id \in (DOMAIN coll) \cup {ids[i] : i \in 1..Len(ids)} |->
                     IF id \in {ids[i] : i \in 1..Len(ids)}
                     THEN [document |-> documents[idx(id)],
                           embedding |-> embeddings[idx(id)],
                           metadata |-> metadatas[idx(id)]]
                     ELSE coll[id]],
              raised |-> "none"]

\* collection.add(documents, embeddings, metadatas, ids): a batch that names
\* an id twice is rejected; a record whose id is already in the collection
\* is left as it is and the new one is dropped.
CollectionAdd(coll, documents, embeddings, metadatas, ids) ==
    IF HasDuplicates(ids)
    THEN [collection |-> coll, raised |-> "DuplicateIDError"]
    ELSE LET new == {i \in 1..Len(ids) : ids[i] \notin DOMAIN coll}
             idx(id) == CHOOSE i \in new : ids[i] = id
         IN  [collection |->
                 [id \in (DOMAIN coll) \cup {ids[i] : i \in new} |->
                     IF id \in DOMAIN coll THEN coll[id]
                     ELSE [document |-> documents[idx(id)],
                           embedding |-> embeddings[idx(id)],
                           metadata |-> metadatas[idx(id)]]],
              raised |-> "none"]

\* VectorStore.add_documents
add_documents(coll, documents, embeddings, metadatas, ids) ==
    IF documents = <<>>
    THEN [collection |-> coll, raised |-> "none"]
    ELSE CollectionAdd(coll, documents, embeddings, metadatas, ids)

\* VectorStore.delete_by_source
delete_by_source(coll, source) ==
    LET ids == IdsOfSource(coll, source)
    IN  IF ids # {} THEN CollectionDelete(coll, ids) ELSE coll

\* VectorStore.clear_all
clear_all(coll) ==
    LET ids == DOMAIN coll
    IN  IF ids # {} THEN CollectionDelete(coll, ids) ELSE coll

\* get_stats gone wrong: every entry is counted as a source of its own
get_stats_per_entry(coll) ==
    [total_documents |-> Count(coll),
     sources |-> {coll[id].metadata.source :
                    id \in {i \in DOMAIN coll : "source" \in DOMAIN coll[i].metadata}},
     num_sources |-> Count(coll)]

\* VectorStore.get_stats; sources is the set that the code returns sorted
get_stats(coll) ==
    LET count == Count(coll)
        sources == IF count > 0
                   THEN {coll[id].metadata.source :
                            id \in {i \in DOMAIN coll :
                                       "source" \in DOMAIN coll[i].metadata}}
                   ELSE {}
    IN  [total_documents |-> count, sources |-> sources,
         num_sources |-> Cardinality(sources)]

(***************************************************************************)
(* ingest_document                                                         *)
(***************************************************************************)
\* f"{file_path.stem}_{i}"
ChunkId(file_path, i) == file_path.stem \o "_" \o ToString(i)

ChunkMetadata(file_path, i, n) ==
    [source |-> PathStr(file_path), filename |-> PathName(file_path),
     chunk_index |-> i, total_chunks |-> n]

\* Steps 5 and 6 of ingest_document: delete_by_source, then add_documents
ReplaceChunks(coll, source, chunks, embeddings, metadatas, ids) ==
    add_documents(delete_by_source(coll, source), chunks, embeddings, metadatas, ids)

\* what ingest_document hands back: the collection, and len(chunks) unless
\* the store raised
Returned(added, n) ==
    [collection |-> added.collection,
     ret |-> IF added.raised = "none" THEN n ELSE 0,
     raised |-> added.raised]

\* StoreChunks gone wrong: no delete_by_source, and ids numbered on from the
\* number of entries the collection holds
StoreChunksAppending(coll, file_path, chunks) ==
    Returned(
        add_documents(coll, chunks, embed_texts(chunks),
            [i \in 1..Len(chunks) |-> ChunkMetadata(file_path, i - 1, Len(chunks))],
            [i \in 1..Len(chunks) |-> ChunkId(file_path, Count(coll) + i - 1)]),
        Len(chunks))

\* Steps 3 to 6 of ingest_document, for the chunks of the text
StoreChunks(coll, file_path, chunks) ==
    Returned(
        ReplaceChunks(coll, PathStr(file_path), chunks, embed_texts(chunks),
            [i \in 1..Len(chunks) |-> ChunkMetadata(file_path, i - 1, Len(chunks))],
            [i \in 1..Len(chunks) |-> ChunkId(file_path, i - 1)]),
        Len(chunks))

\* "if not chunks: return 0"
IngestChunks(coll, file_path, chunks) ==
    IF chunks = <<>> THEN [collection |-> coll, ret |-> 0, raised |-> "none"]
    ELSE StoreChunks(coll, file_path, chunks)

\* ingest_document gone wrong: the exception of parse_document is not caught
ingest_document_uncaught(coll, file_path, parse) ==
    IF ~parse.ok THEN [collection |-> coll, ret |-> 0, raised |-> "ParseError"]
    ELSE IF Strip(parse.text) = <<>>
    THEN [collection |-> coll, ret |-> 0, raised |-> "none"]
    ELSE IngestChunks(coll, file_path, DefaultChunks[parse.text])

\* ingest_document(file_path, embedder, vector_store) on a file that
\* parse_document answers with `parse`
ingest_document(coll, file_path, parse) ==
    IF ~parse.ok THEN [collection |-> coll, ret |-> 0, raised |-> "none"]
    ELSE IF Strip(parse.text) = <<>>
    THEN [collection |-> coll, ret |-> 0, raised |-> "none"]
    ELSE IngestChunks(coll, file_path, DefaultChunks[parse.text])

\* the store operations of ingest_document that may fail with an exception
\* of the store (disk full, database locked)
StoreFaults == {"delete", "add"}

\* ingest_document when the store raises in delete_by_source (nothing is
\* deleted) or in add_documents (nothing is added)
ingest_document_faulty(coll, file_path, parse, fault) ==
    IF Skipped(parse) \/ DefaultChunks[parse.text] = <<>>
    THEN ingest_document(coll, file_path, parse)
    ELSE [collection |-> IF fault = "delete" THEN coll
                         ELSE delete_by_source(coll, PathStr(file_path)),
          ret |-> 0, raised |-> "StoreError"]

(***************************************************************************)
(* VectorStore.query and QueryEngine.retrieve_context                      *)
(***************************************************************************)
RECURSIVE SquaredL2(_, _)
SquaredL2(u, v) ==
    IF u = <<>> \/ v = <<>> THEN 0
    ELSE (Head(u) - Head(v)) * (Head(u) - Head(v)) + SquaredL2(Tail(u), Tail(v))

\* Distance gone wrong: measured from the origin, not from the query vector
DistanceFromOrigin(coll, id, v) == SquaredL2(coll[id].embedding, [i \in 1..Len(v) |-> 0])

\* the collection's metric (ChromaDB's default space, squared L2)
Distance(coll, id, v) == SquaredL2(coll[id].embedding, v)

\* the k nearest of `ids` in ascending distance; entries at the same
\* distance come in any order
RECURSIVE Nearest(_, _, _, _)
Nearest(coll, ids, v, k) ==
    IF k <= 0 \/ ids = {} THEN {<<>>}
    ELSE LET closest == {m \in ids :
                            \A o \in ids : Distance(coll, m, v) <= Distance(coll, o, v)}
         IN  UNION {{<<m>> \o r : r \in Nearest(coll, ids \ {m}, v, k - 1)} :
                      m \in closest}

EmptyResults == [ids |-> <<>>, documents |-> <<>>, metadatas |-> <<>>, distances |-> <<>>]

ResultsFor(coll, ranked, v) ==
    [ids |-> ranked,
     documents |-> [i \in 1..Len(ranked) |-> coll[ranked[i]].document],
     metadatas |-> [i \in 1..Len(ranked) |-> coll[ranked[i]].metadata],
     distances |-> [i \in 1..Len(ranked) |-> Distance(coll, ranked[i], v)]]

\* collection.query(query_embeddings=[v], n_results=n): n must be positive;
\* an n above the number of entries is lowered to it; an empty collection
\* answers with empty lists.  The set of results the call may return.
CollectionQuery(coll, v, n_results) ==
    IF n_results <= 0
    THEN {[raised |-> "TypeError", results |-> EmptyResults]}
    ELSE {[raised |-> "none", results |-> ResultsFor(coll, ranked, v)] :
            ranked \in Nearest(coll, DOMAIN coll, v, n_results)}

\* query gone wrong: one result fewer is asked for
query_one_short(coll, query_embedding, top_k) ==
    CollectionQuery(coll, query_embedding, top_k - 1)

\* VectorStore.query(query_embedding, top_k) (no caller passes `where`)
query(coll, query_embedding, top_k) == CollectionQuery(coll, query_embedding, top_k)

Min2(a, b) == IF a <= b THEN a ELSE b

\* meta.get("filename", "unknown")
FilenameOf(meta) == IF "filename" \in DOMAIN meta THEN meta.filename ELSE "unknown"

\* the "Format results" part of QueryEngine.retrieve_context
format_contexts(results) ==
    IF results.documents # <<>>
    THEN [i \in 1..Min2(Len(results.documents),
                        Min2(Len(results.metadatas), Len(results.distances))) |->
             [text |-> results.documents[i],
              source |-> FilenameOf(results.metadatas[i]),
              distance |-> results.distances[i]]]
    ELSE <<>>

\* QueryEngine.retrieve_context(question, top_k): what it may raise or return
retrieve_context(coll, question, top_k) ==
    {[raised |-> out.raised,
      contexts |-> IF out.raised = "none" THEN format_contexts(out.results) ELSE <<>>] :
        out \in query(coll, embed_text(question), top_k)}

(***************************************************************************)
(* QueryEngine.query.  A returned string is the sequence of the pieces it  *)
(* is formatted from.                                                      *)
(***************************************************************************)
\* what get_llm_response does with a prompt: it returns a text, or raises
LlmAnswers == [ok |-> TRUE, text |-> "You studied at MIT."]
LlmFails == [ok |-> FALSE, text |-> "Connection refused"]
LlmOutcomes == {LlmAnswers, LlmFails}

NoInformation ==
    "I couldn't find any relevant information in your documents. Make sure you've ingested some documents first."

\* f"Error getting LLM response: {e}\n\nMake sure Ollama is running ..."
LlmError(e) ==
    <<"Error getting LLM response: ", e,
      "\n\nMake sure Ollama is running (ollama serve) or your OpenAI key is set.">>

\* QueryEngine.build_prompt: the numbered context parts and the question
build_prompt(question, contexts) ==
    [context |-> [i \in 1..Len(contexts) |->
                    [n |-> i, source |-> contexts[i].source, text |-> contexts[i].text]],
     question |-> question]

\* the orders in which a Python set may be iterated
RECURSIVE Orderings(_)
Orderings(S) ==
    IF S = {} THEN {<<>>}
    ELSE UNION {{<<x>> \o r : r \in Orderings(S \ {x})} : x \in S}

\* ", ".join(labels), piece by piece
RECURSIVE JoinLabels(_)
JoinLabels(labels) ==
    IF labels = <<>> THEN <<>>
    ELSE IF Len(labels) = 1 THEN labels
    ELSE <<labels[1], ", ">> \o JoinLabels(Tail(labels))

\* Step 4 gone wrong: one label for each context, repeats and all
AppendSourcesPerContext(answer, contexts, show_sources) ==
    IF show_sources
    THEN {<<answer, "\n\nSources: ">>
            \o JoinLabels([i \in 1..Len(contexts) |-> contexts[i].source])}
    ELSE {<<answer>>}

\* Step 4 of QueryEngine.query: the answers it may return
AppendSources(answer, contexts, show_sources) ==
    IF show_sources
    THEN {<<answer, "\n\nSources: ">> \o JoinLabels(labels) :
            labels \in Orderings({contexts[i].source : i \in 1..Len(contexts)})}
    ELSE {<<answer>>}

\* Steps 3 and 4: get_llm_response inside try/except, then the sources
Generate(prompt, contexts, show_sources, llm) ==
    IF ~llm.ok
    THEN {[raised |-> "none", answer |-> LlmError(llm.text), llm_calls |-> 1,
           contexts |-> contexts]}
    ELSE {[raised |-> "none", answer |-> a, llm_calls |-> 1, contexts |-> contexts] :
            a \in AppendSources(llm.text, contexts, show_sources)}

\* AnswerFrom gone wrong: generation is called without any context too
AnswerFromGenerating(retrieved, question, show_sources, llm) ==
    IF retrieved.raised # "none"
    THEN {[raised |-> retrieved.raised, answer |-> <<>>, llm_calls |-> 0,
           contexts |-> <<>>]}
    ELSE Generate(build_prompt(question, retrieved.contexts), retrieved.contexts,
                  show_sources, llm)

\* QueryEngine.query after retrieve_context: an exception of retrieval goes
\* to the caller, no context gives the fixed answer, else Steps 2 to 4
AnswerFrom(retrieved, question, show_sources, llm) ==
    IF retrieved.raised # "none"
    THEN {[raised |-> retrieved.raised, answer |-> <<>>, llm_calls |-> 0,
           contexts |-> <<>>]}
    ELSE IF retrieved.contexts = <<>>
    THEN {[raised |-> "none", answer |-> <<NoInformation>>, llm_calls |-> 0,
           contexts |-> <<>>]}
    ELSE Generate(build_prompt(question, retrieved.contexts), retrieved.contexts,
                  show_sources, llm)

\* QueryEngine.query(question, top_k, show_sources), with an LLM that
\* behaves as `llm`: the outcomes the call may have
engine_query(coll, question, top_k, show_sources, llm) ==
    UNION {AnswerFrom(retrieved, question, show_sources, llm) :
             retrieved \in retrieve_context(coll, question, top_k)}

(***************************************************************************)
(* get_documents_to_ingest                                                 *)
(***************************************************************************)
\* the paths in the order of documents.sort(key=lambda p: p.name)
ByName == <<NotesMd, ResumePdf, ResumeTxt>>

\* get_documents_to_ingest over a directory that holds the files `found`
get_documents_to_ingest(found) == SelectSeq(ByName, LAMBDA p : p \in found)

(***************************************************************************)
(* State                                                                   *)
(***************************************************************************)
VARIABLES
    collection,   \* the persisted ChromaDB collection
    pre,          \* the collection as it was when the latest call began
    last,         \* the latest call: its operation, arguments and outcome
    reply,        \* what the latest query / statistics call returned
    batch,        \* the ingest_all_documents run in progress, if any: its loop
                  \* variables, and a log of each document's parse outcome
                  \* (parses), return value (rets) and number of entries it
                  \* left in the collection (stored)
    dimension,    \* the vector length the collection has recorded, 0 before
                  \* the first add
    chunking,     \* a call of chunk_text on its own: arguments and result
    workers,      \* the ingest_document calls that run side by side: where
                  \* each one stands and its local variables
    calls         \* how those calls were scheduled: whether one began while
                  \* another was under way, and the order they ended in

vars == <<collection, pre, last, reply, batch, dimension, chunking, workers, calls>>

NoPath == [parent |-> "", stem |-> "", suffix |-> ""]

NoCall == [op |-> "none", file_path |-> NoPath, source |-> "", parsed |-> FALSE, text |-> <<>>,
           ids |-> <<>>, documents |-> <<>>, metadatas |-> <<>>,
           top_k |-> 0, query_embedding |-> <<>>, ret |-> 0, raised |-> "none",
           returns |-> "None", show_sources |-> FALSE, llm |-> LlmAnswers,
           model_dimension |-> 0, index_dimension |-> 0, fault |-> "none"]

NoStats == [total_documents |-> 0, sources |-> {}, num_sources |-> 0]

NoReply == [results |-> EmptyResults, contexts |-> <<>>, stats |-> NoStats,
            answer |-> <<>>, llm_calls |-> 0]

NoSummary == [documents_found |-> 0, documents_processed |-> 0, total_chunks |-> 0]

NoChunking == [text |-> <<>>, size |-> CHUNK_SIZE, overlap |-> CHUNK_OVERLAP,
               chunks |-> <<>>, done |-> FALSE]

\* the processes that may call ingest_document at the same time
Workers == {"w1", "w2"}

\* crashed_at, partial and reruns tell of the crashes of the call: the step
\* the latest one came at, the chunks that add had stored by then, and the
\* number of times the call was run again
IdleWorker == [pc |-> "idle", parse |-> ParseFailed, chunks |-> <<>>,
               ids |-> {}, ret |-> 0,
               crashed_at |-> "none", partial |-> 0, reruns |-> 0]

NoCalls == [overlapped |-> FALSE, finished |-> <<>>]

IdleBatch == [status |-> "idle", documents |-> <<>>, next |-> 1,
              total_chunks |-> 0, successful |-> 0,
              parses |-> <<>>, rets |-> <<>>, stored |-> <<>>,
              start_empty |-> FALSE, summary |-> NoSummary]

Init ==
    /\ collection = EmptyCollection
    /\ pre = EmptyCollection
    /\ last = NoCall
    /\ reply = NoReply
    /\ batch = IdleBatch
    /\ dimension = 0
    /\ chunking = NoChunking
    /\ workers = [w \in Workers |-> IdleWorker]
    /\ calls = NoCalls

\* collection.add records the vector length of the first vectors it stores
DimensionAfterAdd(dim, embeddings, raised) ==
    IF dim = 0 /\ embeddings # <<>> /\ raised = "none"
    THEN Len(embeddings[1]) ELSE dim

\* the recorded vector length after ingest_document gave r for a parse
DimensionAfterIngest(dim, parse, r) ==
    IF r.ret > 0
    THEN DimensionAfterAdd(dim, embed_texts(DefaultChunks[parse.text]), r.raised)
    ELSE dim

\* `returns` is the type of the value a call hands back; `ret` is the value
\* when it is an int

\* calls are serialized: none starts while ingest_all_documents runs
Serial == batch.status # "running"

(***************************************************************************)
(* Calls of ingest_document, delete_by_source and clear_all                *)
(***************************************************************************)
IngestCall(file_path, parse, r) ==
    [NoCall EXCEPT !.op = "ingest_document", !.source = PathStr(file_path),
                   !.file_path = file_path,
                   !.parsed = parse.ok, !.text = parse.text,
                   !.ret = r.ret, !.raised = r.raised,
                   !.returns = IF r.raised = "none" THEN "int" ELSE "None"]

IngestDocument ==
    /\ Serial
    /\ \E file_path \in Paths, parse \in ParseOutcomes :
         \E r \in {ingest_document(collection, file_path, parse)} :
         /\ collection' = r.collection
         /\ pre' = collection
         /\ last' = IngestCall(file_path, parse, r)
         /\ dimension' = DimensionAfterIngest(dimension, parse, r)
    /\ reply' = NoReply
    /\ batch' = IdleBatch
    /\ UNCHANGED <<chunking, workers, calls>>

DeleteBySource ==
    /\ Serial
    /\ \E file_path \in Paths :
         /\ collection' = delete_by_source(collection, PathStr(file_path))
         /\ last' = [NoCall EXCEPT !.op = "delete_by_source",
                                   !.source = PathStr(file_path),
                                   !.returns = "None"]
    /\ pre' = collection
    /\ reply' = NoReply
    /\ batch' = IdleBatch
    /\ UNCHANGED <<dimension, chunking, workers, calls>>

ClearAll ==
    /\ Serial
    /\ collection' = clear_all(collection)
    /\ pre' = collection
    /\ last' = [NoCall EXCEPT !.op = "clear_all"]
    /\ reply' = NoReply
    /\ batch' = IdleBatch
    /\ UNCHANGED <<dimension, chunking, workers, calls>>

(***************************************************************************)
(* ingest_all_documents: discovery, one loop iteration per step, summary   *)
(***************************************************************************)
IngestAllStart ==
    /\ Serial
    /\ \E found \in SUBSET Paths :
         LET documents == get_documents_to_ingest(found) IN
         batch' = IF documents = <<>>
                  THEN [IdleBatch EXCEPT !.status = "done",
                                         !.start_empty = (collection = EmptyCollection)]
                  ELSE [IdleBatch EXCEPT !.status = "running",
                                         !.documents = documents,
                                         !.start_empty = (collection = EmptyCollection)]
    /\ last' = [NoCall EXCEPT !.op = "ingest_all_documents", !.returns = "dict"]
    /\ pre' = collection
    /\ reply' = NoReply
    /\ UNCHANGED collection
    /\ UNCHANGED <<dimension, chunking, workers, calls>>

\* AfterDocument gone wrong: an exception of ingest_document is caught and
\* the document is counted as one without chunks
AfterDocumentSwallowing(b, doc_path, parse, r) ==
    [b EXCEPT !.next = b.next + 1,
              !.successful = IF r.ret > 0 THEN b.successful + 1 ELSE b.successful,
              !.total_chunks = IF r.ret > 0 THEN b.total_chunks + r.ret
                               ELSE b.total_chunks,
              !.parses = Append(b.parses, parse),
              !.rets = Append(b.rets, r.ret),
              !.stored = Append(b.stored, 0)]

\* the loop's counters and log after ingest_document gave r for doc_path
AfterDocument(b, doc_path, parse, r) ==
    IF r.raised # "none"
    THEN [b EXCEPT !.status = "aborted"]
    ELSE [status |-> "running",
          documents |-> b.documents,
          next |-> b.next + 1,
          successful |-> IF r.ret > 0 THEN b.successful + 1 ELSE b.successful,
          total_chunks |-> IF r.ret > 0 THEN b.total_chunks + r.ret
                           ELSE b.total_chunks,
          parses |-> Append(b.parses, parse),
          rets |-> Append(b.rets, r.ret),
          stored |-> Append(b.stored,
                        IF r.ret > 0
                        THEN Cardinality(IdsOfSource(r.collection, PathStr(doc_path)))
                        ELSE 0),
          start_empty |-> b.start_empty,
          summary |-> b.summary]

IngestAllStep ==
    /\ batch.status = "running"
    /\ batch.next <= Len(batch.documents)
    /\ \E parse \in ParseOutcomes, doc_path \in {batch.documents[batch.next]} :
         \E r \in {ingest_document(collection, doc_path, parse)} :
         /\ collection' = r.collection
         /\ pre' = collection
         /\ last' = IngestCall(doc_path, parse, r)
         /\ batch' = AfterDocument(batch, doc_path, parse, r)
         /\ dimension' = DimensionAfterIngest(dimension, parse, r)
    /\ reply' = NoReply
    /\ UNCHANGED <<chunking, workers, calls>>

(***************************************************************************)
(* ingest_document with a store that fails                                 *)
(***************************************************************************)
IngestDocumentFault ==
    /\ Serial
    /\ \E file_path \in Paths, parse \in ParseOutcomes, fault \in StoreFaults :
         \E r \in {ingest_document_faulty(collection, file_path, parse, fault)} :
         /\ collection' = r.collection
         /\ pre' = collection
         /\ last' = [IngestCall(file_path, parse, r) EXCEPT !.fault = fault]
    /\ reply' = NoReply
    /\ batch' = IdleBatch
    /\ UNCHANGED <<dimension, chunking, workers, calls>>

IngestAllStepFault ==
    /\ batch.status = "running"
    /\ batch.next <= Len(batch.documents)
    /\ \E parse \in ParseOutcomes, fault \in StoreFaults,
          doc_path \in {batch.documents[batch.next]} :
         \E r \in {ingest_document_faulty(collection, doc_path, parse, fault)} :
         /\ collection' = r.collection
         /\ pre' = collection
         /\ last' = [IngestCall(doc_path, parse, r) EXCEPT !.fault = fault]
         /\ batch' = AfterDocument(batch, doc_path, parse, r)
    /\ reply' = NoReply
    /\ UNCHANGED <<dimension, chunking, workers, calls>>

IngestAllFinish ==
    /\ batch.status = "running"
    /\ batch.next > Len(batch.documents)
    /\ reply' = [NoReply EXCEPT !.stats = get_stats(collection)]
    /\ batch' = [batch EXCEPT
                   !.status = "done",
                   !.summary = [documents_found |-> Len(batch.documents),
                                documents_processed |-> batch.successful,
                                total_chunks |-> batch.total_chunks]]
    /\ last' = [NoCall EXCEPT !.op = "ingest_all_documents", !.returns = "dict"]
    /\ pre' = collection
    /\ UNCHANGED collection
    /\ UNCHANGED <<dimension, chunking, workers, calls>>

(***************************************************************************)
(* Calls made on the VectorStore and the QueryEngine directly              *)
(***************************************************************************)
MemoMeta == [source |-> "memo.txt", filename |-> "memo.txt"]
NoSourceMeta == [filename |-> "scratch.txt"]

\* the records a caller hands to add_documents
AddRecords ==
    {[id |-> "resume_0", document |-> <<"e", "f">>, metadata |-> MemoMeta],
     [id |-> "memo_0", document |-> <<"a", "b">>, metadata |-> MemoMeta],
     [id |-> "memo_0", document |-> <<"c", "d">>, metadata |-> NoSourceMeta]}

AddBatches == UNION {[1..n -> AddRecords] : n \in 0..MaxBatch}

AddDocuments ==
    /\ Serial
    /\ \E recs \in AddBatches :
         \E documents \in {[i \in 1..Len(recs) |-> recs[i].document]},
            metadatas \in {[i \in 1..Len(recs) |-> recs[i].metadata]},
            ids \in {[i \in 1..Len(recs) |-> recs[i].id]} :
         \E r \in {add_documents(collection, documents, embed_texts(documents),
                                 metadatas, ids)} :
         /\ collection' = r.collection
         /\ last' = [NoCall EXCEPT !.op = "add_documents", !.ids = ids,
                                   !.documents = documents, !.metadatas = metadatas,
                                   !.raised = r.raised]
         /\ dimension' = DimensionAfterAdd(dimension, embed_texts(documents), r.raised)
    /\ pre' = collection
    /\ reply' = NoReply
    /\ batch' = IdleBatch
    /\ UNCHANGED <<chunking, workers, calls>>

Questions == {<<"a", "b">>, <<"e", "f">>}

RetrieveContext ==
    /\ Serial
    /\ \E question \in Questions, top_k \in 0..MaxTopK :
         \E query_embedding \in {embed_text(question)} :
         \E out \in query(collection, query_embedding, top_k) :
           /\ last' = [NoCall EXCEPT !.op = "retrieve_context", !.top_k = top_k,
                                     !.query_embedding = query_embedding,
                                     !.raised = out.raised,
                                     !.returns = IF out.raised = "none"
                                                 THEN "list" ELSE "None"]
           /\ reply' = [NoReply EXCEPT
                          !.results = out.results,
                          !.contexts = IF out.raised = "none"
                                       THEN format_contexts(out.results) ELSE <<>>]
    /\ pre' = collection
    /\ batch' = IdleBatch
    /\ UNCHANGED collection
    /\ UNCHANGED <<dimension, chunking, workers, calls>>

(***************************************************************************)
(* The index under a changed EMBEDDING_MODEL: every call is made by a      *)
(* process whose model has vector length d.  The collection refuses        *)
(* vectors that are not of its recorded length.                            *)
(***************************************************************************)
\* collection.add / collection.query: the vectors against the length the
\* collection has recorded
DimensionMismatch(dim, embeddings) ==
    dim # 0 /\ \E i \in 1..Len(embeddings) : Len(embeddings[i]) # dim

\* VectorStore.add_documents with vectors of any length
add_documents_checked(dim, coll, documents, embeddings, metadatas, ids) ==
    IF documents # <<>> /\ DimensionMismatch(dim, embeddings)
    THEN [collection |-> coll, raised |-> "InvalidDimensionException"]
    ELSE add_documents(coll, documents, embeddings, metadatas, ids)

\* VectorStore.query with a vector of any length
query_checked(dim, coll, query_embedding, top_k) ==
    IF top_k > 0 /\ DimensionMismatch(dim, <<query_embedding>>)
    THEN {[raised |-> "InvalidDimensionException", results |-> EmptyResults]}
    ELSE query(coll, query_embedding, top_k)

\* VectorStore.__init__ (with Embedder.__init__) in a process whose model
\* has vector length d: the collection is opened as it is
OpenStore ==
    /\ Serial
    /\ \E d \in Dimensions :
         last' = [NoCall EXCEPT !.op = "open", !.model_dimension = d,
                                !.index_dimension = dimension]
    /\ pre' = collection
    /\ reply' = NoReply
    /\ batch' = IdleBatch
    /\ UNCHANGED <<collection, dimension, chunking, workers, calls>>

AddEmbedded ==
    /\ Serial
    /\ \E d \in Dimensions, recs \in AddBatches :
         \E documents \in {[i \in 1..Len(recs) |-> recs[i].document]},
            metadatas \in {[i \in 1..Len(recs) |-> recs[i].metadata]},
            ids \in {[i \in 1..Len(recs) |-> recs[i].id]} :
         \E r \in {add_documents_checked(dimension, collection, documents,
                                         embed_texts_as(d, documents), metadatas, ids)} :
         /\ collection' = r.collection
         /\ dimension' = DimensionAfterAdd(dimension, embed_texts_as(d, documents),
                                           r.raised)
         /\ last' = [NoCall EXCEPT !.op = "add_documents", !.ids = ids,
                                   !.documents = documents, !.metadatas = metadatas,
                                   !.raised = r.raised,
                                   !.model_dimension = d,
                                   !.index_dimension = dimension]
    /\ pre' = collection
    /\ reply' = NoReply
    /\ batch' = IdleBatch
    /\ UNCHANGED <<chunking, workers, calls>>

QueryEmbedded ==
    /\ Serial
    /\ \E d \in Dimensions, question \in Questions, top_k \in 1..MaxTopK :
         \E query_embedding \in {embed_text_as(d, question)} :
         \E out \in query_checked(dimension, collection, query_embedding, top_k) :
           /\ last' = [NoCall EXCEPT !.op = "retrieve_context", !.top_k = top_k,
                                     !.query_embedding = query_embedding,
                                     !.raised = out.raised,
                                     !.returns = IF out.raised = "none"
                                                 THEN "list" ELSE "None",
                                     !.model_dimension = d,
                                     !.index_dimension = dimension]
           /\ reply' = [NoReply EXCEPT
                          !.results = out.results,
                          !.contexts = IF out.raised = "none"
                                       THEN format_contexts(out.results) ELSE <<>>]
    /\ pre' = collection
    /\ batch' = IdleBatch
    /\ UNCHANGED <<collection, dimension, chunking, workers, calls>>

\* a call of QueryEngine.query
Query ==
    /\ Serial
    /\ \E question \in Questions, top_k \in 0..MaxTopK,
          show_sources \in BOOLEAN, llm \in LlmOutcomes :
         \E out \in engine_query(collection, question, top_k, show_sources, llm) :
           /\ last' = [NoCall EXCEPT !.op = "query", !.top_k = top_k,
                                     !.query_embedding = embed_text(question),
                                     !.show_sources = show_sources, !.llm = llm,
                                     !.raised = out.raised,
                                     !.returns = IF out.raised = "none"
                                                 THEN "str" ELSE "None"]
           /\ reply' = [NoReply EXCEPT !.contexts = out.contexts,
                                       !.answer = out.answer,
                                       !.llm_calls = out.llm_calls]
    /\ pre' = collection
    /\ batch' = IdleBatch
    /\ UNCHANGED collection
    /\ UNCHANGED <<dimension, chunking, workers, calls>>

GetStats ==
    /\ Serial
    /\ last' = [NoCall EXCEPT !.op = "get_stats", !.returns = "dict"]
    /\ reply' = [NoReply EXCEPT !.stats = get_stats(collection)]
    /\ pre' = collection
    /\ batch' = IdleBatch
    /\ UNCHANGED collection
    /\ UNCHANGED <<dimension, chunking, workers, calls>>

(***************************************************************************)
(* Specifications                                                          *)
(***************************************************************************)
\* the VectorStore and QueryEngine interface, with single-document ingestion
Next ==
    \/ IngestDocument
    \/ DeleteBySource
    \/ ClearAll
    \/ AddDocuments
    \/ RetrieveContext
    \/ GetStats

Spec == Init /\ [][Next]_vars

\* the ingestion pipeline alone: every entry is made by ingest_document
NextIngest ==
    \/ IngestDocument
    \/ DeleteBySource
    \/ ClearAll
    \/ IngestAllStart
    \/ IngestAllStep
    \/ IngestAllFinish

SpecIngest == Init /\ [][NextIngest]_vars

(***************************************************************************)
(* chunk_text on its own, over every short text and every valid            *)
(* (chunk_size, chunk_overlap)                                             *)
(***************************************************************************)
Alphabet == {"a", ".", " ", NL}

TextsUpTo(n) == UNION {[1..k -> Alphabet] : k \in 0..n}

InitChunk ==
    /\ collection = EmptyCollection
    /\ pre = EmptyCollection
    /\ last = NoCall
    /\ reply = NoReply
    /\ batch = IdleBatch
    /\ dimension = 0
    /\ workers = [w \in Workers |-> IdleWorker]
    /\ calls = NoCalls
    /\ \E text \in TextsUpTo(MaxTextLen), size \in 1..MaxSize :
         \E overlap \in 0..(size - 1) :
           chunking = [text |-> text, size |-> size, overlap |-> overlap,
                       chunks |-> <<>>, done |-> FALSE]

ChunkText ==
    /\ ~chunking.done
    /\ chunking' = [chunking EXCEPT
                       !.chunks = chunk_text(chunking.text, chunking.size,
                                             chunking.overlap),
                       !.done = TRUE]
    /\ UNCHANGED <<collection, pre, last, reply, batch, dimension, workers, calls>>

NextChunk == ChunkText

SpecChunk == InitChunk /\ [][NextChunk]_vars

\* the index opened, filled and queried under models of different vector
\* lengths
NextDimension ==
    \/ OpenStore
    \/ AddEmbedded
    \/ QueryEmbedded
    \/ ClearAll

SpecDimension == Init /\ [][NextDimension]_vars

(***************************************************************************)
(* Two processes that each call ingest_document once for one source, on    *)
(* the index that earlier ingestions left.  A call takes its steps one     *)
(* store operation at a time: collection.get and collection.delete of      *)
(* delete_by_source, then collection.add of add_documents.                 *)
(***************************************************************************)
\* the document both processes ingest
SharedPath == ResumePdf

Underway(w) == workers[w].pc \in {"get", "delete", "add"}

AllIdle == \A w \in Workers : workers[w].pc = "idle"

\* ingest_document up to Step 4: parse, the two early returns, chunk, embed
WorkerBegin(w) ==
    /\ workers[w].pc = "idle"
    /\ \E parse \in ParseOutcomes :
         \E chunks \in {IF Skipped(parse) THEN <<>> ELSE DefaultChunks[parse.text]} :
         /\ workers' = [workers EXCEPT ![w] =
                          [pc |-> IF chunks = <<>> THEN "done" ELSE "get",
                           parse |-> parse, chunks |-> chunks, ids |-> {}, ret |-> 0,
                           crashed_at |-> "none", partial |-> 0, reruns |-> 0]]
         /\ calls' = [overlapped |-> calls.overlapped
                                       \/ (chunks # <<>> /\ \E o \in Workers \ {w} : Underway(o)),
                      finished |-> IF chunks = <<>> THEN Append(calls.finished, w)
                                   ELSE calls.finished]
    /\ pre' = collection
    /\ last' = NoCall
    /\ reply' = NoReply
    /\ batch' = IdleBatch
    /\ UNCHANGED <<collection, dimension, chunking>>

\* delete_by_source: results = self.collection.get(where={"source": source})
WorkerGet(w) ==
    /\ workers[w].pc = "get"
    /\ workers' = [workers EXCEPT ![w].pc = "delete",
                                  ![w].ids = IdsOfSource(collection, PathStr(SharedPath))]
    /\ UNCHANGED <<collection, pre, last, reply, batch, dimension, chunking, calls>>

\* delete_by_source: if results["ids"]: self.collection.delete(ids=...)
WorkerDelete(w) ==
    /\ workers[w].pc = "delete"
    /\ collection' = IF workers[w].ids # {}
                      THEN CollectionDelete(collection, workers[w].ids)
                      ELSE collection
    /\ workers' = [workers EXCEPT ![w].pc = "add"]
    /\ UNCHANGED <<pre, last, reply, batch, dimension, chunking, calls>>

\* what add_documents makes of the chunks of a call
WorkerAdded(coll, chunks) ==
    add_documents(coll, chunks, embed_texts(chunks),
        [i \in 1..Len(chunks) |-> ChunkMetadata(SharedPath, i - 1, Len(chunks))],
        [i \in 1..Len(chunks) |-> ChunkId(SharedPath, i - 1)])

\* Step 6 of ingest_document, and its return
WorkerAdd(w) ==
    /\ workers[w].pc = "add"
    /\ \E r \in {WorkerAdded(collection, workers[w].chunks)} :
         /\ collection' = r.collection
         /\ dimension' = DimensionAfterAdd(dimension, embed_texts(workers[w].chunks),
                                           r.raised)
         /\ workers' = [workers EXCEPT ![w].pc = "done",
                                       ![w].ret = Len(workers[w].chunks)]
    /\ calls' = [calls EXCEPT !.finished = Append(calls.finished, w)]
    /\ UNCHANGED <<pre, last, reply, batch, chunking>>

\* ingestions made one by one before the two processes start
IngestBefore == AllIdle /\ IngestDocument

(***************************************************************************)
(* One process whose ingest_document call crashes and is run again.  The   *)
(* store keeps what was written before the crash; the process loses its    *)
(* local variables and the re-run parses the same file again.              *)
(***************************************************************************)
\* the process that crashes
Solo == "w1"

\* the process dies between two store operations
WorkerCrash(w) ==
    /\ Underway(w)
    /\ workers[w].reruns < MaxCrashes
    /\ workers' = [workers EXCEPT ![w].pc = "crashed",
                                  ![w].crashed_at = workers[w].pc,
                                  ![w].partial = 0]
    /\ UNCHANGED <<collection, pre, last, reply, batch, dimension, chunking, calls>>

\* the process dies inside add_documents, when the first k chunks are stored
WorkerCrashInAdd(w) ==
    /\ workers[w].pc = "add"
    /\ workers[w].reruns < MaxCrashes
    /\ \E k \in 1..(Len(workers[w].chunks) - 1) :
         \E r \in {add_documents(collection,
                      SubSeq(workers[w].chunks, 1, k),
                      embed_texts(SubSeq(workers[w].chunks, 1, k)),
                      [i \in 1..k |-> ChunkMetadata(SharedPath, i - 1,
                                                    Len(workers[w].chunks))],
                      [i \in 1..k |-> ChunkId(SharedPath, i - 1)])} :
         /\ collection' = r.collection
         /\ dimension' = DimensionAfterAdd(dimension,
                             embed_texts(SubSeq(workers[w].chunks, 1, k)), r.raised)
         /\ workers' = [workers EXCEPT ![w].pc = "crashed",
                                       ![w].crashed_at = "add",
                                       ![w].partial = k]
    /\ UNCHANGED <<pre, last, reply, batch, chunking, calls>>

\* WorkerRerun gone wrong: the re-run goes on where the crash came and does
\* not delete again
WorkerResume(w) ==
    /\ workers[w].pc = "crashed"
    /\ workers' = [workers EXCEPT ![w].pc = "add",
                                  ![w].reruns = workers[w].reruns + 1]
    /\ UNCHANGED <<collection, pre, last, reply, batch, dimension, chunking, calls>>

\* ingest_document is called again for the same file, from Step 1
WorkerRerun(w) ==
    /\ workers[w].pc = "crashed"
    /\ workers' = [workers EXCEPT ![w].pc = "get", ![w].ids = {},
                                  ![w].reruns = workers[w].reruns + 1]
    /\ UNCHANGED <<collection, pre, last, reply, batch, dimension, chunking, calls>>

NextCrash ==
    \/ IngestBefore
    \/ WorkerBegin(Solo)
    \/ WorkerGet(Solo)
    \/ WorkerDelete(Solo)
    \/ WorkerAdd(Solo)
    \/ WorkerCrash(Solo)
    \/ WorkerCrashInAdd(Solo)
    \/ WorkerRerun(Solo)

SpecCrash == Init /\ [][NextCrash]_vars

NextConcurrent ==
    \/ IngestBefore
    \/ \E w \in Workers : WorkerBegin(w)
    \/ \E w \in Workers : WorkerGet(w)
    \/ \E w \in Workers : WorkerDelete(w)
    \/ \E w \in Workers : WorkerAdd(w)

SpecConcurrent == Init /\ [][NextConcurrent]_vars

\* ingestion with a store that may fail
NextFault ==
    \/ IngestDocumentFault
    \/ IngestAllStart
    \/ IngestAllStep
    \/ IngestAllStepFault
    \/ IngestAllFinish

SpecFault == Init /\ [][NextFault]_vars

\* questions asked of an index that ingestion fills and empties
NextQuery ==
    \/ IngestDocument
    \/ DeleteBySource
    \/ ClearAll
    \/ Query

SpecQuery == Init /\ [][NextQuery]_vars

(***************************************************************************)
(* Properties of the ingestion pipeline                                    *)
(***************************************************************************)
IsIngest(call) == call.op = "ingest_document"

\* parse_document gave a text with something other than whitespace in it
HasText(call) == call.parsed /\ Strip(call.text) # <<>>

\* the ids f"{stem}_0" .. f"{stem}_{n-1}"
ChunkIdsOf(file_path, n) == {ChunkId(file_path, i) : i \in 0..(n - 1)}

\* the entries of file_path in coll are exactly the chunks, each under its id
HoldsExactly(coll, file_path, chunks) ==
    /\ IdsOfSource(coll, PathStr(file_path)) = ChunkIdsOf(file_path, Len(chunks))
    /\ \A i \in 1..Len(chunks) :
         /\ ChunkId(file_path, i - 1) \in DOMAIN coll
         /\ coll[ChunkId(file_path, i - 1)] =
              [document |-> chunks[i], embedding |-> embed_text(chunks[i]),
               metadata |-> ChunkMetadata(file_path, i - 1, Len(chunks))]

\* C1: when document D was ingested and is ingested again with another
\* non-empty text, the entries of source D are exactly the chunks of the new
\* text, under the ids stem_0 .. stem_{n-1}.
C1_ReingestHoldsNewChunks ==
    [][(/\ IsIngest(last) /\ HasText(last)
        /\ IsIngest(last') /\ HasText(last')
        /\ last'.file_path = last.file_path
        /\ last'.text # last.text)
       => HoldsExactly(collection', last'.file_path, DefaultChunks[last'.text])]_vars

\* C2: when a source of which chunks were stored is ingested again and now
\* yields an empty or whitespace-only text, none of its chunks remains.
C2_EmptyReingestRemovesChunks ==
    [][(/\ IsIngest(last) /\ last.ret > 0
        /\ IdsOfSource(collection, last.source) # {}
        /\ IsIngest(last') /\ last'.file_path = last.file_path
        /\ last'.parsed /\ Strip(last'.text) = <<>>)
       => IdsOfSource(collection', last'.source) = {}]_vars

\* C3: ingesting the same document with the same content twice in a row
\* leaves the collection as the first ingestion left it, and both calls
\* return the same count.
C3_ReingestUnchangedIsIdempotent ==
    [][(/\ IsIngest(last) /\ IsIngest(last')
        /\ last'.file_path = last.file_path
        /\ last'.parsed = last.parsed
        /\ last'.text = last.text)
       => (collection' = collection /\ last'.ret = last.ret)]_vars

\* a second ingestion of an unchanged document of two or more chunks, with
\* the chunks of another document beside it, has just run
C3_Witness ==
    /\ IsIngest(last) /\ last.ret >= 2
    /\ collection = pre
    /\ Cardinality(IdsOfSource(pre, last.source)) = last.ret
    /\ Count(collection) > last.ret

BatchActive == batch.status \in {"running", "done"}

\* C4: in ingest_all_documents a document whose parse raises or whose text
\* is empty stores nothing and returns 0; the run is never aborted; every
\* other document is taken through delete_by_source and add_documents and
\* returns its chunk count; the run ends with one result for each document.
C4_BatchIsolatesSkippedDocuments ==
    /\ batch.status # "aborted"
    /\ (BatchActive /\ IsIngest(last)) =>
         /\ last.raised = "none"
         /\ ~HasText(last) => (last.ret = 0 /\ collection = pre)
         /\ HasText(last) =>
              /\ last.ret = Len(DefaultChunks[last.text])
              /\ last.ret > 0
              /\ ChunkIdsOf(last.file_path, last.ret) \subseteq DOMAIN collection
              /\ \A id \in IdsOfSource(collection, last.source) :
                   \E i \in 1..last.ret :
                     /\ id = ChunkId(last.file_path, i - 1)
                     /\ collection[id] =
                          [document |-> DefaultChunks[last.text][i],
                           embedding |-> embed_text(DefaultChunks[last.text][i]),
                           metadata |-> ChunkMetadata(last.file_path, i - 1, last.ret)]
    /\ batch.status = "done" =>
         /\ Len(batch.rets) = Len(batch.documents)
         /\ Len(batch.parses) = Len(batch.documents)
         /\ batch.summary.documents_found = Len(batch.documents)
         /\ \A i \in 1..Len(batch.documents) :
              IF Skipped(batch.parses[i]) THEN batch.rets[i] = 0
              ELSE batch.rets[i] = Len(DefaultChunks[batch.parses[i].text])
                   /\ batch.rets[i] > 0

\* a run over three documents has ended: the second one failed to parse,
\* the first and the third were ingested
C4_Witness ==
    /\ batch.status = "done"
    /\ Len(batch.documents) = 3
    /\ ~batch.parses[2].ok
    /\ batch.rets[1] > 0 /\ batch.rets[2] = 0 /\ batch.rets[3] > 0
    /\ IdsOfSource(collection, PathStr(batch.documents[3])) # {}

RECURSIVE SumSeq(_)
SumSeq(seq) == IF seq = <<>> THEN 0 ELSE Head(seq) + SumSeq(Tail(seq))

\* C5: after documents with distinct paths are ingested into an empty index,
\* get_stats gives total_documents equal to the sum of the returned chunk
\* counts and num_sources equal to the number of documents that returned
\* more than zero.
C5_StatsMatchReturnedCounts ==
    (batch.status = "done" /\ batch.start_empty /\ batch.documents # <<>>) =>
        /\ reply.stats.total_documents = SumSeq(batch.rets)
        /\ reply.stats.num_sources =
             Cardinality({i \in 1..Len(batch.rets) : batch.rets[i] > 0})

\* C6: ingest_all_documents returns documents_found = the number of paths,
\* documents_processed = the number of documents that stored at least one
\* chunk, total_chunks = the number of chunks those documents stored;
\* processed <= found, total_chunks >= processed; all 0 without documents.
C6_SummaryCountsWhatWasStored ==
    batch.status = "done" =>
        /\ batch.summary.documents_found = Len(batch.documents)
        /\ batch.summary.documents_processed =
             Cardinality({i \in 1..Len(batch.stored) : batch.stored[i] >= 1})
        /\ batch.summary.total_chunks = SumSeq(batch.stored)
        /\ batch.summary.documents_processed <= batch.summary.documents_found
        /\ batch.summary.total_chunks >= batch.summary.documents_processed
        /\ batch.documents = <<>> => batch.summary = NoSummary

\* C7: the id ingest_document builds for a chunk is used by no chunk of
\* another source: two chunks that differ in source path or chunk index
\* never have the same id.
C7_ChunkIdsAreUnique ==
    (IsIngest(last) /\ last.ret > 0) =>
        \A id \in ChunkIdsOf(last.file_path, last.ret) :
            id \in DOMAIN pre => pre[id].metadata.source = last.source

\* the sources that have an entry in the collection
SourcesIn(coll) == get_stats(coll).sources

\* C8: every entry has 0 <= chunk_index < total_chunks, and the entries of
\* one source carry one total_chunks and the chunk_index values
\* 0 .. total_chunks-1, each once.
C8_ChunkIndexesAreComplete ==
    /\ \A id \in DOMAIN collection :
         /\ 0 <= collection[id].metadata.chunk_index
         /\ collection[id].metadata.chunk_index < collection[id].metadata.total_chunks
    /\ \A source \in SourcesIn(collection) :
         \E n \in 1..Count(collection) :
           /\ \A id \in IdsOfSource(collection, source) :
                collection[id].metadata.total_chunks = n
           /\ \A k \in 0..(n - 1) :
                Cardinality({id \in IdsOfSource(collection, source) :
                               collection[id].metadata.chunk_index = k}) = 1

(***************************************************************************)
(* Properties of the VectorStore and of retrieval                          *)
(***************************************************************************)
\* C9: add_documents with an id that is already in the index overwrites the
\* entry: afterwards the id holds the text, vector and metadata of the
\* latest add, and the entry count has not grown for that id.
C9_AddOverwritesExistingId ==
    (last.op = "add_documents" /\ last.raised = "none") =>
        /\ \A i \in 1..Len(last.ids) :
             last.ids[i] \in DOMAIN pre =>
                /\ last.ids[i] \in DOMAIN collection
                /\ collection[last.ids[i]] =
                     [document |-> last.documents[i],
                      embedding |-> embed_text(last.documents[i]),
                      metadata |-> last.metadatas[i]]
        /\ Count(collection) =
             Count(pre) + Cardinality({last.ids[i] : i \in 1..Len(last.ids)} \ DOMAIN pre)

Ascending(seq) == \A i \in 1..(Len(seq) - 1) : seq[i] <= seq[i + 1]

\* the results are entries of the collection, each once, with their own
\* text, metadata and distance, and no entry left out is nearer than one
\* returned
ResultsAreNearest(results, coll, v) ==
    /\ Len(results.documents) = Len(results.ids)
    /\ Len(results.metadatas) = Len(results.ids)
    /\ Len(results.distances) = Len(results.ids)
    /\ ~HasDuplicates(results.ids)
    /\ \A i \in 1..Len(results.ids) :
         /\ results.ids[i] \in DOMAIN coll
         /\ results.documents[i] = coll[results.ids[i]].document
         /\ results.metadatas[i] = coll[results.ids[i]].metadata
         /\ results.distances[i] = Distance(coll, results.ids[i], v)
         /\ \A o \in (DOMAIN coll) \ {results.ids[j] : j \in 1..Len(results.ids)} :
              results.distances[i] <= Distance(coll, o, v)

\* retrieve_context gives the entries of the query result, in its order
ContextsFollowResults(contexts, results) ==
    /\ Len(contexts) = Len(results.ids)
    /\ \A i \in 1..Len(contexts) :
         /\ contexts[i].text = results.documents[i]
         /\ contexts[i].distance = results.distances[i]
         /\ contexts[i].source = FilenameOf(results.metadatas[i])

\* the query of the latest retrieve_context call raised nothing and gave
\* min(top_k, number of entries) results in ascending distance
QueryAnswered ==
    /\ last.raised = "none"
    /\ Len(reply.results.ids) = Min2(last.top_k, Count(collection))
    /\ Ascending(reply.results.distances)
    /\ ResultsAreNearest(reply.results, collection, last.query_embedding)
    /\ ContextsFollowResults(reply.contexts, reply.results)

\* C10 as stated: for every top_k, query returns exactly
\* min(top_k, number of entries) results in ascending distance and raises
\* nothing, and retrieve_context returns the same entries in the same order.
C10_QueryReturnsMinOfTopKAndCount ==
    last.op = "retrieve_context" => QueryAnswered

\* C10, amended: the same for top_k >= 1; a top_k of 0 is refused with an
\* error.
C10_QueryReturnsMinForPositiveTopK ==
    last.op = "retrieve_context" =>
        /\ last.top_k >= 1 => QueryAnswered
        /\ last.top_k <= 0 => (last.raised # "none" /\ reply.contexts = <<>>)

\* a query for more results than the index holds has returned all entries
C10_Witness ==
    /\ last.op = "retrieve_context"
    /\ Count(collection) >= 1
    /\ last.top_k > Count(collection)
    /\ Len(reply.results.ids) = Count(collection)
    /\ Len(reply.contexts) = Count(collection)

\* the entries whose vector is the query vector of the latest call
SameVector == {id \in DOMAIN collection :
                 collection[id].embedding = last.query_embedding}

\* a retrieve_context call with top_k >= 1 was made with the vector of a
\* stored entry
QueriedStoredVector ==
    /\ last.op = "retrieve_context"
    /\ last.top_k >= 1
    /\ SameVector # {}

\* C11 as stated: for any index content and top_k >= 1, a query with the
\* vector of a stored entry returns that entry as the first result.
C11_StoredVectorEntryComesFirst ==
    QueriedStoredVector =>
        /\ last.raised = "none"
        /\ reply.results.ids # <<>>
        /\ \A id \in SameVector : reply.results.ids[1] = id

\* C11, amended: the first result is an entry that holds the query vector,
\* at distance 0; it is that entry when no other entry holds the same
\* vector.
C11_FirstResultHoldsTheQueryVector ==
    QueriedStoredVector =>
        /\ last.raised = "none"
        /\ reply.results.ids # <<>>
        /\ reply.results.ids[1] \in SameVector
        /\ reply.results.distances[1] = 0
        /\ reply.contexts # <<>>
        /\ reply.contexts[1].distance = 0
        /\ reply.contexts[1].text = collection[reply.results.ids[1]].document

\* a query with the vector of one stored entry, with entries of other
\* vectors beside it, has returned that entry first
C11_Witness ==
    /\ QueriedStoredVector
    /\ Cardinality(SameVector) = 1
    /\ Count(collection) >= 3
    /\ reply.results.ids # <<>>
    /\ reply.results.ids[1] \in SameVector

\* the entries of coll whose metadata has the source
WithSource(coll, source) ==
    {id \in DOMAIN coll :
        "source" \in DOMAIN coll[id].metadata /\ coll[id].metadata.source = source}

\* delete_by_source removed the entries of the source and no other, changed
\* nothing when there was none, and raised nothing
DeletedExactlyTheSource ==
    /\ last.raised = "none"
    /\ DOMAIN collection = (DOMAIN pre) \ WithSource(pre, last.source)
    /\ \A id \in DOMAIN collection : collection[id] = pre[id]
    /\ WithSource(pre, last.source) = {} => collection = pre

\* C12 as stated: delete_by_source(s) removes every entry of source s and
\* leaves every other entry unchanged; when no entry matches it changes
\* nothing, does not raise, and reports a zero deletion count to its caller.
C12_DeleteReportsZeroCount ==
    last.op = "delete_by_source" =>
        /\ DeletedExactlyTheSource
        /\ WithSource(pre, last.source) = {} =>
              (last.returns = "int" /\ last.ret = 0)

\* C12, the part that holds: the same effect on the entries; the call hands
\* nothing back to its caller (None), whether or not an entry matched.
C12_DeleteRemovesExactlyTheSource ==
    last.op = "delete_by_source" =>
        /\ DeletedExactlyTheSource
        /\ last.returns = "None"

\* delete_by_source has removed the entries of one source and left the
\* entries of two other sources in place
C12_Witness ==
    /\ last.op = "delete_by_source"
    /\ WithSource(pre, last.source) # {}
    /\ Count(collection) >= 2
    /\ \E id \in DOMAIN collection : "source" \notin DOMAIN collection[id].metadata
    /\ \E id \in DOMAIN collection : "source" \in DOMAIN collection[id].metadata

\* the distinct metadata source values of the entries of coll
SourceValues(coll) ==
    {coll[id].metadata.source :
        id \in {i \in DOMAIN coll : "source" \in DOMAIN coll[i].metadata}}

\* the statistics are those of the collection as it is now
StatsAreLive ==
    last.op = "get_stats" =>
        /\ reply.stats.total_documents = Cardinality(DOMAIN collection)
        /\ reply.stats.sources = SourceValues(collection)
        /\ reply.stats.num_sources = Cardinality(SourceValues(collection))
        /\ reply.stats.num_sources <= reply.stats.total_documents

\* get_stats right after clear_all
StatsAfterClearAll ==
    (last.op = "clear_all" /\ last'.op = "get_stats") =>
        (reply'.stats.total_documents = 0 /\ reply'.stats.num_sources = 0
         /\ reply'.stats.sources = {})

\* C13: after any sequence of add_documents, delete_by_source, clear_all and
\* ingest_document calls, get_stats gives total_documents = the number of
\* entries, sources = the distinct source values of the entries,
\* num_sources = its size (<= total_documents); after clear_all both are 0.
C13_StatsAreDerivedLive == []StatsAreLive /\ [][StatsAfterClearAll]_vars

\* get_stats has answered for an index of three or more entries of two
\* sources
C13_Witness ==
    /\ last.op = "get_stats"
    /\ reply.stats.total_documents >= 3
    /\ reply.stats.num_sources = 2
    /\ reply.stats.num_sources < reply.stats.total_documents

(***************************************************************************)
(* Properties of QueryEngine.query                                         *)
(***************************************************************************)
\* C14: when retrieval yields no context, QueryEngine.query returns the
\* fixed no-information response and get_llm_response is not called.
C14_NoContextSkipsGeneration ==
    (last.op = "query" /\ last.raised = "none" /\ reply.contexts = <<>>) =>
        /\ reply.answer = <<NoInformation>>
        /\ reply.llm_calls = 0
        /\ last.returns = "str"

\* a question was asked of the empty index, with top_k >= 1
C14_Witness ==
    /\ last.op = "query" /\ last.raised = "none" /\ last.top_k >= 1
    /\ collection = EmptyCollection
    /\ reply.contexts = <<>>
    /\ reply.answer = <<NoInformation>>

\* C15: QueryEngine.query always returns a string and never raises: no
\* failure of embedding, of the index query or of generation reaches the
\* caller.
C15_QueryAlwaysReturnsAString ==
    last.op = "query" => (last.raised = "none" /\ last.returns = "str")

\* C15, the part that holds: a failure of get_llm_response is returned as
\* an error string.
C15_GenerationFailureIsReturned ==
    (last.op = "query" /\ last.raised = "none" /\ reply.llm_calls > 0 /\ ~last.llm.ok) =>
        (reply.answer = LlmError(last.llm.text) /\ last.returns = "str")

\* the labels of a "Sources: a, b, c" list given as its pieces
RECURSIVE LabelsOf(_)
LabelsOf(pieces) ==
    IF pieces = <<>> THEN <<>>
    ELSE <<pieces[1]>> \o (IF Len(pieces) >= 2 THEN LabelsOf(SubSeq(pieces, 3, Len(pieces)))
                           ELSE <<>>)

\* every second piece of a "Sources: a, b, c" list is the separator
SeparatedByCommas(pieces) ==
    /\ Len(pieces) % 2 = 1
    /\ \A i \in 1..Len(pieces) : (i % 2 = 0) => pieces[i] = ", "

\* generation was called and it succeeded
Generated ==
    /\ last.op = "query" /\ last.raised = "none"
    /\ reply.llm_calls > 0 /\ last.llm.ok

\* C16: with show_sources and a successful generation the answer is the
\* generation output followed by a Sources list that holds the label of
\* every retrieved context once and no other label; without show_sources
\* it is the generation output unchanged.
C16_SourcesListIsTheRetrievedLabels ==
    Generated =>
        IF last.show_sources
        THEN /\ Len(reply.answer) >= 3
             /\ reply.answer[1] = last.llm.text
             /\ reply.answer[2] = "\n\nSources: "
             /\ SeparatedByCommas(SubSeq(reply.answer, 3, Len(reply.answer)))
             /\ \A i \in 1..Len(reply.contexts) :
                  Cardinality({j \in 1..Len(LabelsOf(SubSeq(reply.answer, 3, Len(reply.answer)))) :
                                 LabelsOf(SubSeq(reply.answer, 3, Len(reply.answer)))[j]
                                   = reply.contexts[i].source}) = 1
             /\ \A j \in 1..Len(LabelsOf(SubSeq(reply.answer, 3, Len(reply.answer)))) :
                  \E i \in 1..Len(reply.contexts) :
                    LabelsOf(SubSeq(reply.answer, 3, Len(reply.answer)))[j]
                      = reply.contexts[i].source
        ELSE reply.answer = <<last.llm.text>>

\* an answer was generated from two contexts of one file, and its Sources
\* list names the file once
C16_Witness ==
    /\ Generated /\ last.show_sources
    /\ Len(reply.contexts) = 2
    /\ reply.contexts[1].source = reply.contexts[2].source
    /\ Len(reply.answer) = 3

(***************************************************************************)
(* Properties of chunk_text                                                *)
(***************************************************************************)
\* C18: chunk_text(text, size, overlap) with 0 <= overlap < size returns
\* chunks that each have length <= size, for every text.
C18_ChunksFitTheSize ==
    chunking.done =>
        \A i \in 1..Len(chunking.chunks) : Len(chunking.chunks[i]) <= chunking.size

\* a text longer than size was split into several chunks, one of them of
\* exactly size characters, with a positive overlap
C18_Witness ==
    /\ chunking.done
    /\ chunking.overlap > 0
    /\ Len(chunking.text) > chunking.size
    /\ Len(chunking.chunks) >= 2
    /\ \E i \in 1..Len(chunking.chunks) : Len(chunking.chunks[i]) = chunking.size

ModelMismatch ==
    /\ last.op \in {"open", "add_documents", "retrieve_context"}
    /\ last.index_dimension # 0
    /\ last.model_dimension # 0
    /\ last.model_dimension # last.index_dimension

\* all stored vectors have one length
OneVectorLength ==
    \A i, j \in DOMAIN collection :
        Len(collection[i].embedding) = Len(collection[j].embedding)

\* C17: opening, adding to or querying an index built under one model
\* with a model of another dimension fails with a DimensionMismatchError,
\* and entries of two vector lengths are never stored together.
C17_MismatchFailsFast ==
    /\ ModelMismatch => last.raised = "DimensionMismatchError"
    /\ OneVectorLength

\* C17, the part that holds: entries of two vector lengths are never stored
\* together; an add of vectors or a query with a vector of another length
\* is refused by the collection and changes nothing.
C17_CollectionRefusesOtherLengths ==
    /\ OneVectorLength
    /\ \A id \in DOMAIN collection : Len(collection[id].embedding) = dimension
    /\ (ModelMismatch /\ last.op = "add_documents" /\ last.documents # <<>>) =>
          (last.raised = "InvalidDimensionException" /\ collection = pre)
    /\ (ModelMismatch /\ last.op = "retrieve_context") =>
          (last.raised = "InvalidDimensionException" /\ reply.contexts = <<>>)

(***************************************************************************)
(* Properties of ingest_document calls that run side by side               *)
(***************************************************************************)
\* both calls have ended and both had chunks to store
BothStored ==
    /\ \A w \in Workers : workers[w].pc = "done" /\ workers[w].chunks # <<>>
    /\ Len(calls.finished) = Cardinality(Workers)

\* the chunks of the call that ended last
LastChunks == workers[calls.finished[Len(calls.finished)]].chunks

\* C20: two ingest_document calls for one source that are serialized leave
\* the source with exactly the chunk set of the call that ran last (calls
\* that interleave may leave a set that is neither call's).
C20_SerializedCallsLeaveTheLastChunkSet ==
    (BothStored /\ ~calls.overlapped) =>
        HoldsExactly(collection, SharedPath, LastChunks)

\* C20, the part that holds: serialized calls leave exactly the chunk set
\* of the last call when no document of the same stem is in the index.
C20_SerializedCallsWithoutSameStem ==
    (/\ BothStored /\ ~calls.overlapped
     /\ IdsOfSource(collection, PathStr(ResumeTxt)) = {}) =>
        HoldsExactly(collection, SharedPath, LastChunks)

\* C20, the interleaved case, put the other way round: calls that interleave
\* leave the chunk set of one of them.  The claim says that this can fail,
\* and it does.
C20_InterleavedCallsLeaveOneChunkSet ==
    (/\ BothStored /\ calls.overlapped
     /\ IdsOfSource(collection, PathStr(ResumeTxt)) = {}) =>
        \E w \in Workers : HoldsExactly(collection, SharedPath, workers[w].chunks)

(***************************************************************************)
(* Properties of a crashed and re-run ingest_document call                 *)
(***************************************************************************)
\* the entry that ingest_document stores for chunk i of the call of w
NewEntry(w, i) ==
    [document |-> workers[w].chunks[i],
     embedding |-> embed_text(workers[w].chunks[i]),
     metadata |-> ChunkMetadata(SharedPath, i - 1, Len(workers[w].chunks))]

\* after a crash that came once delete_by_source was done, the source holds
\* none or some of the new chunks and nothing else
HoldsPartOfTheNewChunks(w) ==
    /\ Cardinality(IdsOfSource(collection, PathStr(SharedPath))) <= workers[w].partial
    /\ \A id \in IdsOfSource(collection, PathStr(SharedPath)) :
         \E i \in 1..workers[w].partial :
            id = ChunkId(SharedPath, i - 1) /\ collection[id] = NewEntry(w, i)

\* C21: after a crash of ingest_document for S the index holds none or a
\* part of S's new chunks and the old ones are not brought back; once
\* ingest_document for S is run again to its end, the index is what an
\* uninterrupted ingestion of S from the state before the crash gives.
C21_RerunRecoversFromACrash ==
    /\ (workers[Solo].pc = "crashed" /\ workers[Solo].crashed_at = "add") =>
          HoldsPartOfTheNewChunks(Solo)
    /\ (workers[Solo].pc = "done" /\ workers[Solo].reruns > 0) =>
          collection = ingest_document(pre, SharedPath, workers[Solo].parse).collection

\* a call that replaced stored chunks crashed inside add_documents with a
\* part of its chunks stored, was run again and has ended
C21_Witness ==
    /\ workers[Solo].pc = "done"
    /\ workers[Solo].reruns > 0
    /\ workers[Solo].crashed_at = "add"
    /\ workers[Solo].partial >= 1
    /\ IdsOfSource(pre, PathStr(SharedPath)) # {}
    /\ pre # collection

(***************************************************************************)
(* Properties of ingestion with a store that fails                         *)
(***************************************************************************)
\* the latest ingest_document call came to delete_by_source or
\* add_documents and the store raised there
StoreFailed == IsIngest(last) /\ HasText(last) /\ last.fault # "none"

\* C22: a failure of delete_by_source or add_documents inside
\* ingest_document propagates out of ingest_document and out of
\* ingest_all_documents; the failing document is not counted in
\* documents_processed or total_chunks and no count is returned for it.
C22_StoreFailurePropagates ==
    /\ StoreFailed =>
          /\ last.raised # "none"
          /\ last.returns = "None"
          /\ batch.status \in {"idle", "aborted"}
    /\ batch.status = "aborted" =>
          /\ StoreFailed
          /\ batch.summary = NoSummary
          /\ Len(batch.rets) = batch.next - 1
          /\ batch.successful =
                Cardinality({i \in 1..Len(batch.rets) : batch.rets[i] > 0})
          /\ batch.total_chunks = SumSeq(batch.rets)

\* a run that had ingested one document was ended by a failure of
\* add_documents for the next one, after the old chunks were deleted
C22_Witness ==
    /\ batch.status = "aborted"
    /\ StoreFailed /\ last.fault = "add"
    /\ batch.next >= 2
    /\ batch.successful >= 1
    /\ pre # collection

(***************************************************************************)
(* Frame of ingest_document                                                *)
(***************************************************************************)
\* the entries of coll whose metadata source is not the source
NotOfSource(coll, source) ==
    {id \in DOMAIN coll :
        ~("source" \in DOMAIN coll[id].metadata /\ coll[id].metadata.source = source)}

\* C23: ingest_document for a source S changes only entries of S: every
\* entry of another source has the same id, text, vector and metadata
\* before and after the call, whatever the call's outcome.
C23_IngestChangesOnlyItsSource ==
    IsIngest(last) =>
        /\ NotOfSource(collection, last.source) = NotOfSource(pre, last.source)
        /\ \A id \in NotOfSource(pre, last.source) : collection[id] = pre[id]

\* an ingestion has stored chunks in an index where an entry of another
\* source held one of the ids it builds, beside an entry without a source
C23_Witness ==
    /\ IsIngest(last) /\ last.ret > 0
    /\ pre # collection
    /\ \E id \in NotOfSource(pre, last.source) :
         id \in ChunkIdsOf(last.file_path, last.ret)
    /\ \E id \in DOMAIN pre : "source" \notin DOMAIN pre[id].metadata

====
